---- MODULE Spec2Model ----
(***************************************************************************)
(* Model of src/image_rotator.py: ImageProcessor.process_image (the        *)
(* scale -> rotate -> crop -> save pipeline of one variant),               *)
(* ImageProcessor.process_multiple_images (listing, train/val routing,     *)
(* per-variant operation subset, counting) and the input loops of main().  *)
(*                                                                         *)
(* File names are sequences of one-character strings, so that splitext,    *)
(* lower() and the f-string that builds the output name are computed and   *)
(* not assumed.  Real numbers are exact rationals <<num, den>>; an angle   *)
(* is <<c, s, d>> with cos = c/d and sin = s/d.                             *)
(***************************************************************************)
EXTENDS Integers, Sequences, FiniteSets, TLC

\* ------------------------------------------------------------- bounds
\* Largest num_variations of the enumerated runs.
MaxVariations == 2
\* Largest width and height of an image handed directly to process_image.
MaxSide == 4

\* ------------------------------------------------------------ helpers
SetMax(S) == CHOOSE x \in S : \A y \in S : y <= x
SetMin(S) == CHOOSE x \in S : \A y \in S : x <= y

\* floor and ceiling of n / d for d > 0
FloorDiv(n, d) == n \div d
CeilDiv(n, d) == -((-n) \div d)

\* int(dim * r) of Python for dim >= 0 and a rational r >= 0: truncation
IntMul(dim, r) == FloorDiv(dim * r[1], r[2])

\* a <= b on rationals with positive denominators
RatLeq(a, b) == a[1] * b[2] <= b[1] * a[2]

\* str.lower() on the characters that occur in the modelled names
LowerChar(ch) ==
  CASE ch = "J" -> "j"
    [] ch = "P" -> "p"
    [] ch = "G" -> "g"
    [] ch = "N" -> "n"
    [] OTHER -> ch

Lower(s) == [k \in 1..Len(s) |-> LowerChar(s[k])]

\* os.path.splitext on a name without separators: split at the last dot,
\* unless only dots precede it.
SplitExt(name) ==
  LET dots == {k \in 1..Len(name) : name[k] = "."}
  IN IF dots = {} THEN <<name, <<>>>>
     ELSE LET k == SetMax(dots)
          IN IF \E j \in 1..(k - 1) : name[j] # "."
             THEN <<SubSeq(name, 1, k - 1), SubSeq(name, k, Len(name))>>
             ELSE <<name, <<>>>>

\* decimal digits of n >= 0, as the f-string prints index+1
RECURSIVE Str(_)
Str(n) ==
  LET digit == <<"0", "1", "2", "3", "4", "5", "6", "7", "8", "9">>
  IN IF n < 10 THEN <<digit[n + 1]>>
     ELSE Str(n \div 10) \o <<digit[(n % 10) + 1]>>

\* os.path.join(dir, name) and os.path.basename: a path is a directory (a
\* sequence of components) and a file name
Join(dir, name) == [dir |-> dir, name |-> name]
Basename(path) == path.name

\* os.makedirs(d, exist_ok=True): d and every ancestor of d exist afterwards
Makedirs(existing, d) == existing \cup {SubSeq(d, 1, k) : k \in 1..Len(d)}

\* ------------------------------------------------- the files on disk
base_output_dir == <<"out">>
input_dir == <<"in">>

F_a_jpg == <<"a", ".", "j", "p", "g">>
F_a_PNG == <<"a", ".", "P", "N", "G">>
F_bad_bmp == <<"b", "a", "d", ".", "b", "m", "p">>
F_c_gif == <<"c", ".", "g", "i", "f">>

\* What Image.open finds in a file: whether it decodes, and its size.
FileInfo(name) ==
  CASE name = F_a_jpg -> [decodable |-> TRUE, size |-> <<4, 3>>]
    [] name = F_a_PNG -> [decodable |-> TRUE, size |-> <<5, 5>>]
    [] OTHER -> [decodable |-> FALSE, size |-> <<0, 0>>]

\* The contents of the input directories that are enumerated.
Listings ==
  { <<>>,
    <<F_c_gif>>,
    <<F_a_jpg, F_a_PNG>>,
    <<F_a_jpg, F_bad_bmp, F_c_gif>> }

\* ------------------------------------------------------ process_image
supported_formats ==
  { <<".", "j", "p", "g">>, <<".", "j", "p", "e", "g">>, <<".", "p", "n", "g">>,
    <<".", "b", "m", "p">>, <<".", "t", "i", "f", "f">> }

DefaultScaleRange == << <<4, 5>>, <<3, 2>> >>
DefaultCropRatio == <<4, 5>>
DefaultTrainRatio == <<4, 5>>

\* random.uniform(lo, hi): the enumerated values that lie in the interval
Uniform(lo, hi) ==
  {f \in { <<4, 5>>, <<3, 2>> } : RatLeq(lo, f) /\ RatLeq(f, hi)}

\* random.uniform(0, 360): 0, 53.13 and 90 degrees
Angles == { <<1, 0, 1>>, <<3, 4, 5>>, <<0, 1, 1>> }

\* random.randint(a, b), both ends included
RandInt(a, b) == a..b

\* str(uuid.uuid4())[:4]: four hexadecimal characters
RandomIds == { <<"0", "0", "0", "0">>, <<"a", "b", "1", "2">> }

\* resize(new_size): new_size truncated per dimension; the library rejects a
\* size with a zero dimension (ValueError, caught by the except clause)
ScaleStep(size, scale_factor) ==
  LET new_size == <<IntMul(size[1], scale_factor), IntMul(size[2], scale_factor)>>
  IN [ok |-> new_size[1] >= 1 /\ new_size[2] >= 1, size |-> new_size]

\* rotate(angle, expand=True), the sizes it may return.  The library
\* returns a copy for 0 degrees, a transposition for 180 and for 90 and 270
\* degrees, and otherwise grows the canvas to the bounding box of the four
\* corners rotated about the centre (w/2, h/2): ceil(max) - floor(min) per
\* axis, in floating point.  Coordinates are kept exact and multiplied by
\* 2d here; where an extreme coordinate is an integer the rounding of the
\* library may or may not push it past it, so both results are possible.
\* Nothing crops the result back afterwards.
RotateStep(size, angle) ==
  LET w == size[1]
      h == size[2]
      c == angle[1]
      s == angle[2]
      d == angle[3]
      corners == { <<0, 0>>, <<w, 0>>, <<w, h>>, <<0, h>> }
      xx == {c * (2 * p[1] - w) - s * (2 * p[2] - h) + w * d : p \in corners}
      yy == {s * (2 * p[1] - w) + c * (2 * p[2] - h) + h * d : p \in corners}
      his(cc) == IF SetMax(cc) % (2 * d) = 0
                 THEN {SetMax(cc) \div (2 * d), SetMax(cc) \div (2 * d) + 1}
                 ELSE {CeilDiv(SetMax(cc), 2 * d)}
      los(cc) == IF SetMin(cc) % (2 * d) = 0
                 THEN {SetMin(cc) \div (2 * d), SetMin(cc) \div (2 * d) - 1}
                 ELSE {FloorDiv(SetMin(cc), 2 * d)}
  IN IF s = 0 THEN {size}
     ELSE IF c = 0 THEN { <<h, w>> }
     ELSE { <<xh - xl, yh - yl>> : xh \in his(xx), xl \in los(xx), yh \in his(yy), yl \in los(yy) }

\* CropFits with the margin test weakened to accept an image with no margin
CropFits_NoMargin(w, h, crop_w, crop_h) == w >= crop_w /\ h >= crop_h

\* line 75: there is an edge to crop away
CropFits(w, h, crop_w, crop_h) == w > crop_w /\ h > crop_h

\* lines 70-83: the possible outcomes of the crop step on an image of `size`
CropStep(size, crop_ratio) ==
  LET w == size[1]
      h == size[2]
      crop_w == IntMul(w, crop_ratio)
      crop_h == IntMul(h, crop_ratio)
  IN IF CropFits(w, h, crop_w, crop_h)
     THEN { [applied |-> TRUE,
             size |-> <<crop_w, crop_h>>,
             box |-> <<left, top, left + crop_w, top + crop_h>>] :
            left \in RandInt(0, w - crop_w), top \in RandInt(0, h - crop_h) }
     ELSE { [applied |-> FALSE, size |-> size, box |-> <<>>] }

\* OutputName with the 0-based index as the variant number
OutputName_ZeroBased(input_path, random_id, index) ==
  SplitExt(Basename(input_path))[1] \o <<"_">> \o random_id \o <<"_", "v">>
    \o Str(index) \o <<".", "j", "p", "g">>

\* lines 86-88: f"{original_name}_{random_id}_v{index+1}.jpg"
OutputName(input_path, random_id, index) ==
  SplitExt(Basename(input_path))[1] \o <<"_">> \o random_id \o <<"_", "v">>
    \o Str(index + 1) \o <<".", "j", "p", "g">>

\* save(output_path, 'JPEG'): fails on an empty image or an encoder error
SaveStep(size, encode_ok) == encode_ok /\ size[1] >= 1 /\ size[2] >= 1

\* ExceptClause letting the exception leave process_image
ExceptClause_Reraise == [raised |-> TRUE]

\* lines 95-97: every exception of the try block is caught; the call
\* returns (None, None)
ExceptClause == [raised |-> FALSE]

\* The modifications dict: the keys recorded, with their values.
Modifications(scaled, factor, rotated, angle, cropped, box) ==
  LET keys == (IF scaled THEN {"scale"} ELSE {})
                \cup (IF rotated THEN {"rotation"} ELSE {})
                \cup (IF cropped THEN {"crop"} ELSE {})
  IN [k \in keys |-> CASE k = "scale" -> factor
                       [] k = "rotation" -> angle
                       [] k = "crop" -> box]

\* What a call that ended in the except clause returns and leaves behind.
Failure(size, rot_in, rot_out, crop_in, crop_out, mods, rotated, crop_seen) ==
  [raised |-> ExceptClause.raised, none |-> TRUE, saved |-> FALSE,
   encode_ok |-> FALSE, random_id |-> <<>>,
   modifications |-> mods, output_path |-> Join(<<>>, <<>>),
   original_size |-> size, rot_in |-> rot_in, rot_out |-> rot_out,
   crop_in |-> crop_in, crop_out |-> crop_out,
   rotated |-> rotated, crop_seen |-> crop_seen, opens |-> 1]

\* lines 43-53: the scale step, over the draws of scale_factor
ScaleOutcomes(size, scale, scale_range) ==
  IF scale
  THEN { [ok |-> ScaleStep(size, f).ok, size |-> ScaleStep(size, f).size, factor |-> f] :
         f \in Uniform(scale_range[1], scale_range[2]) }
  ELSE { [ok |-> TRUE, size |-> size, factor |-> <<1, 1>>] }

\* lines 56-66: the rotate step, over the draws of angle
RotateOutcomes(size, rotate) ==
  IF rotate
  THEN UNION { { [size |-> out, angle |-> a] : out \in RotateStep(size, a) } : a \in Angles }
  ELSE { [size |-> size, angle |-> <<1, 0, 1>>] }

\* lines 69-83: the crop step, over the draws of left and top
CropOutcomes(size, crop, crop_ratio) ==
  IF crop THEN CropStep(size, crop_ratio)
  ELSE { [applied |-> FALSE, size |-> size, box |-> <<>>] }

\* lines 85-93: the name, the save and the return, over the draws of the id
\* and over the encoder succeeding or not
SaveOutcomes(input_path, output_dir, index, rotate, scale, crop, info, sc, ro, cr) ==
  LET mods == Modifications(scale, sc.factor, rotate, ro.angle, cr.applied, cr.box)
  IN { IF SaveStep(cr.size, encode_ok)
       THEN [raised |-> FALSE, none |-> FALSE, saved |-> TRUE,
             encode_ok |-> encode_ok, random_id |-> random_id,
             modifications |-> mods,
             output_path |-> Join(output_dir, OutputName(input_path, random_id, index)),
             original_size |-> info.size,
             rot_in |-> sc.size, rot_out |-> ro.size,
             crop_in |-> ro.size, crop_out |-> cr.size,
             rotated |-> rotate, crop_seen |-> crop, opens |-> 1]
       ELSE Failure(info.size, sc.size, ro.size, ro.size, cr.size, mods, rotate, crop)
       : random_id \in RandomIds, encode_ok \in BOOLEAN }

\* lines 33-97: every outcome of one call of process_image on a file, over
\* the random draws and over the encoder succeeding or not.  The record
\* keeps the return value (none, modifications, output_path) and the sizes
\* entering and leaving the rotate and the crop step.
ProcessImage(input_path, output_dir, index, rotate, scale, crop, scale_range, crop_ratio, info) ==
  IF ~info.decodable
  THEN {Failure(<<0, 0>>, <<0, 0>>, <<0, 0>>, <<0, 0>>, <<0, 0>>, <<>>, FALSE, FALSE)}
  ELSE
    UNION {
      IF ~sc.ok
      THEN {Failure(info.size, <<0, 0>>, <<0, 0>>, <<0, 0>>, <<0, 0>>, <<>>, FALSE, FALSE)}
      ELSE UNION {
             UNION { SaveOutcomes(input_path, output_dir, index, rotate, scale, crop, info, sc, ro, cr)
                     : cr \in CropOutcomes(ro.size, crop, crop_ratio) }
             : ro \in RotateOutcomes(sc.size, rotate) }
      : sc \in ScaleOutcomes(info.size, scale, scale_range) }

\* ------------------------------------------- process_multiple_images
VARIABLES
  pc,                \* where the program is
  listing,           \* os.listdir(input_dir)
  dirs0,             \* the directories that existed before the program ran
  dirs,              \* the directories that exist
  num_variations, operations, train_ratio,
  image_files, train_count, total_variations, processed_count,
  fi,                \* position of `filename` in image_files
  i,                 \* the variant index of the inner loop
  calls,             \* one record per call of process_image made by the run
  opens,             \* Image.open events per file name
  img                \* a direct call of process_image: arguments and result

vars == <<pc, listing, dirs0, dirs, num_variations, operations, train_ratio, image_files, train_count, total_variations, processed_count, fi, i, calls, opens, img>>

AllOperations == {"rotate", "scale", "crop"}
AllFiles == {F_a_jpg, F_a_PNG, F_bad_bmp, F_c_gif}

train_dir == Append(base_output_dir, "train")
val_dir == Append(base_output_dir, "val")

\* the output trees a run may find: nothing, or everything
InitialDirs == { {}, {base_output_dir, train_dir, val_dir} }

\* the train_ratio values of the enumerated runs
Ratios == { <<0, 1>>, <<1, 2>>, <<4, 5>>, <<1, 1>> }

\* line 120: the extension, lower-cased, is a supported one
IsSupported(f) == Lower(SplitExt(f)[2]) \in supported_formats

\* line 135: int(num_variations * train_ratio)
TrainCount(n, ratio) == IntMul(n, ratio)

\* IsTrain with the split point itself routed to train
IsTrain_Inclusive(index, count) == index <= count

\* line 143
IsTrain(index, count) == index < count

\* CurrentOperations without the fallback when nothing was selected
CurrentOperations_NoFallback(ops) ==
  LET picked == ops \cap {"rotate", "scale"}
  IN {IF "crop" \in ops /\ picked # {} THEN picked \cup {"crop"} ELSE picked}

\* lines 147-157: the operation subsets a variant may get (random.choice
\* draws the fallback)
CurrentOperations(ops) ==
  LET picked == ops \cap {"rotate", "scale"}
      current == IF "crop" \in ops /\ picked # {} THEN picked \cup {"crop"}
                 ELSE picked
  IN IF current = {} /\ ops # {} THEN {{o} : o \in ops} ELSE {current}

\* line 166: `if modifications:` is false for None and for an empty dict
Truthy(r) == ~r.none /\ DOMAIN r.modifications # {}

\* what the loop sees of a call: whether it raised, the returned pair, the
\* test of line 166 on it, and the effects on the file system
Returned(r) ==
  [raised |-> r.raised, none |-> r.none, truthy |-> Truthy(r),
   keys |-> IF r.none THEN {} ELSE DOMAIN r.modifications,
   output_path |-> r.output_path, random_id |-> r.random_id,
   saved |-> r.saved, opens |-> r.opens]

Idle == [phase |-> "unused"]

RunVars(l, d, n, ops, ratio) ==
  /\ listing = l
  /\ dirs0 = d
  /\ dirs = d
  /\ num_variations = n
  /\ operations = ops
  /\ train_ratio = ratio
  /\ image_files = <<>>
  /\ train_count = 0
  /\ total_variations = 0
  /\ processed_count = 0
  /\ fi = 1
  /\ i = 0
  /\ calls = {}
  /\ opens = [f \in AllFiles |-> 0]

\* process_multiple_images called directly
InitRun ==
  /\ pc = "run"
  /\ img = Idle
  /\ \E l \in Listings, d \in InitialDirs, n \in 0..MaxVariations, ops \in SUBSET AllOperations, ratio \in Ratios :
       RunVars(l, d, n, ops, ratio)

\* one long run: ten variants of one image, four fifths of them for training
InitLongRun ==
  /\ pc = "run"
  /\ img = Idle
  /\ RunVars(<<F_a_jpg>>, {}, 10, {"rotate"}, <<8, 10>>)

\* the program started through main(): the operations and the number of
\* variants are still to be typed in
InitMain ==
  /\ pc = "main_output"
  /\ img = Idle
  /\ \E l \in Listings, d \in InitialDirs :
       RunVars(l, d, 0, {}, DefaultTrainRatio)

Init == InitRun \/ InitMain

\* process_multiple_images called directly, the long run included
InitSplit == InitRun \/ InitLongRun

\* lines 196-203
MainOutputDir ==
  /\ pc = "main_output"
  /\ dirs' = IF base_output_dir \in dirs THEN dirs ELSE Makedirs(dirs, base_output_dir)
  /\ pc' = "main_ops"
  /\ UNCHANGED <<listing, dirs0, num_variations, operations, train_ratio, image_files, train_count, total_variations, processed_count, fi, i, calls, opens, img>>

\* lines 211-222: asks again until at least one operation is chosen
MainSelectOperations ==
  /\ pc = "main_ops"
  /\ \E choices \in SUBSET {"1", "2", "3", "9"} :
       LET chosen == (IF "1" \in choices THEN {"rotate"} ELSE {})
                       \cup (IF "2" \in choices THEN {"scale"} ELSE {})
                       \cup (IF "3" \in choices THEN {"crop"} ELSE {})
       IN IF chosen # {}
          THEN operations' = chosen /\ pc' = "main_num"
          ELSE UNCHANGED <<operations, pc>>
  /\ UNCHANGED <<listing, dirs0, dirs, num_variations, train_ratio, image_files, train_count, total_variations, processed_count, fi, i, calls, opens, img>>

\* lines 225-235: asks again until the number is positive, then runs with
\* the default train_ratio
MainNumVariations ==
  /\ pc = "main_num"
  /\ \E n \in 0..MaxVariations :
       IF n > 0
       THEN num_variations' = n /\ pc' = "run"
       ELSE UNCHANGED <<num_variations, pc>>
  /\ UNCHANGED <<listing, dirs0, dirs, operations, train_ratio, image_files, train_count, total_variations, processed_count, fi, i, calls, opens, img>>

\* lines 113-135: the directories are made first, then the files listed
Setup ==
  /\ pc = "run"
  /\ dirs' = Makedirs(Makedirs(dirs, train_dir), val_dir)
  /\ image_files' = SelectSeq(listing, IsSupported)
  /\ IF image_files' = <<>>
     THEN /\ pc' = "no_images"
          /\ UNCHANGED <<total_variations, train_count>>
     ELSE /\ pc' = "loop"
          /\ total_variations' = Len(image_files') * num_variations
          /\ train_count' = TrainCount(num_variations, train_ratio)
  /\ processed_count' = 0
  /\ UNCHANGED <<listing, dirs0, num_variations, operations, train_ratio, fi, i, calls, opens, img>>

\* lines 141-173: one pass of the inner loop, the call of process_image
\* included
ProcessVariant ==
  /\ pc = "loop"
  /\ fi <= Len(image_files)
  /\ i < num_variations
  /\ LET filename == image_files[fi]
         input_path == Join(input_dir, filename)
         is_train == IsTrain(i, train_count)
         output_dir == IF is_train THEN train_dir ELSE val_dir
     IN \E current_operations \in CurrentOperations(operations) :
        \E r \in {Returned(x) : x \in ProcessImage(input_path, output_dir, i, "rotate" \in current_operations, "scale" \in current_operations, "crop" \in current_operations, DefaultScaleRange, DefaultCropRatio, FileInfo(filename))} :
          /\ calls' = calls \cup
               {[file |-> filename, index |-> i, output_dir |-> output_dir,
                 active |-> current_operations, none |-> r.none,
                 saved |-> r.saved, keys |-> r.keys,
                 random_id |-> r.random_id,
                 output_path |-> r.output_path]}
          /\ opens' = [opens EXCEPT ![filename] = @ + r.opens]
          /\ IF r.raised
             THEN pc' = "aborted" /\ UNCHANGED processed_count
             ELSE /\ pc' = pc
                  /\ processed_count' = IF r.truthy THEN processed_count + 1
                                        ELSE processed_count
  /\ i' = i + 1
  /\ UNCHANGED <<listing, dirs0, dirs, num_variations, operations, train_ratio, image_files, train_count, total_variations, fi, img>>

\* line 137: the next file name
NextImage ==
  /\ pc = "loop"
  /\ fi <= Len(image_files)
  /\ i >= num_variations
  /\ fi' = fi + 1
  /\ i' = 0
  /\ UNCHANGED <<pc, listing, dirs0, dirs, num_variations, operations, train_ratio, image_files, train_count, total_variations, processed_count, calls, opens, img>>

\* lines 175-177
Finish ==
  /\ pc = "loop"
  /\ fi > Len(image_files)
  /\ pc' = "done"
  /\ UNCHANGED <<listing, dirs0, dirs, num_variations, operations, train_ratio, image_files, train_count, total_variations, processed_count, fi, i, calls, opens, img>>

\* the steps of process_multiple_images
NextRun ==
  \/ Setup
  \/ ProcessVariant
  \/ NextImage
  \/ Finish

Next ==
  \/ MainOutputDir
  \/ MainSelectOperations
  \/ MainNumVariations
  \/ NextRun

Spec == Init /\ [][Next]_vars

SpecSplit == InitSplit /\ [][NextRun]_vars

\* ------------------------------------- process_image called directly
CropRatios == { <<1, 2>>, <<4, 5>>, <<1, 1>> }

InitImage ==
  /\ pc = "image"
  /\ \E d \in InitialDirs : RunVars(<<>>, d, 0, {}, DefaultTrainRatio)
  /\ \E w \in 1..MaxSide, h \in 1..MaxSide, decodable \in BOOLEAN, rotate \in BOOLEAN, scale \in BOOLEAN, crop \in BOOLEAN, crop_ratio \in CropRatios :
       img = [phase |-> "ready", info |-> [decodable |-> decodable, size |-> <<w, h>>],
              rotate |-> rotate, scale |-> scale, crop |-> crop,
              crop_ratio |-> crop_ratio]

\* lines 30-97: one call process_image(input_path, train_dir, 0, ...)
CallProcessImage ==
  /\ pc = "image"
  /\ img.phase = "ready"
  /\ dirs' = IF train_dir \in dirs THEN dirs ELSE Makedirs(dirs, train_dir)
  /\ \E r \in ProcessImage(Join(input_dir, F_a_jpg), train_dir, 0, img.rotate, img.scale, img.crop, DefaultScaleRange, img.crop_ratio, img.info) :
       img' = [phase |-> "returned", info |-> img.info,
               rotate |-> img.rotate, scale |-> img.scale, crop |-> img.crop,
               crop_ratio |-> img.crop_ratio, result |-> r]
  /\ UNCHANGED <<pc, listing, dirs0, num_variations, operations, train_ratio, image_files, train_count, total_variations, processed_count, fi, i, calls, opens>>

NextImageCall == CallProcessImage

SpecImage == InitImage /\ [][NextImageCall]_vars

\* ------------------------------------------------------------- claims
Range(seq) == {seq[k] : k \in 1..Len(seq)}
Saved == {c \in calls : c.saved}

\* C1: whatever the size (W,H) entering the rotate step and whatever the
\* angle drawn, the image leaving the rotate step of process_image has size
\* exactly (W,H).
C1_RotateKeepsSize ==
  (img.phase = "returned" /\ img.result.rotated)
    => img.result.rot_out = img.result.rot_in

\* C2: a variant is routed to train if and only if its index is below
\* floor(num_variations * train_ratio), the same split for every image; with
\* ten variants and a ratio of 0.8, indices 0..7 go to train and 8..9 to val.
C2_SplitByIndex ==
  LET split == FloorDiv(num_variations * train_ratio[1], train_ratio[2])
      routed(f, d) == {c.index : c \in {x \in calls : x.file = f /\ x.output_dir = d}}
  IN /\ \A c \in calls :
          /\ c.output_dir \in {train_dir, val_dir}
          /\ (c.output_dir = train_dir) <=> (c.index < split)
          /\ c.saved => c.output_path.dir = c.output_dir
     /\ (pc = "done" /\ num_variations = 10 /\ train_ratio = <<8, 10>>)
          => \A f \in Range(image_files) :
               /\ routed(f, train_dir) = 0..7
               /\ routed(f, val_dir) = 8..9

C2_Witness ==
  /\ pc = "done"
  /\ num_variations = 10
  /\ train_ratio = <<8, 10>>
  /\ Cardinality({c \in Saved : c.output_dir = train_dir}) = 8
  /\ Cardinality({c \in Saved : c.output_dir = val_dir}) = 2

\* C3: when the input directory holds no supported image, the run ends with
\* the no-supported-images condition and the file system is as it was: no
\* file written, no directory created.
C3_NoImagesLeavesDisk ==
  pc = "no_images" => (dirs = dirs0 /\ calls = {})

\* C4: a run given an empty operations configuration stops before any image
\* is processed: process_image is never called and nothing is written.
C4_EmptyOperationsFailFast ==
  operations = {} => calls = {}

\* C5: a decode or encode failure never aborts the run: no exception leaves
\* the loop, and a finished run in which a call failed has produced every
\* variant of every image none of whose calls failed, with processed_count
\* below total_images * num_variations.
C5_FailureDoesNotAbort ==
  /\ pc # "aborted"
  /\ (pc = "done" /\ \E c \in calls : c.none)
       => /\ processed_count < Len(image_files) * num_variations
          /\ \A f \in Range(image_files) :
               (\A c \in calls : c.file = f => ~c.none)
                 => \A k \in 0..(num_variations - 1) :
                      \E c \in Saved : c.file = f /\ c.index = k

C5_Witness ==
  /\ pc = "done"
  /\ num_variations = MaxVariations
  /\ \E c \in calls : c.none /\ c.file = F_bad_bmp
  /\ \A k \in 0..(num_variations - 1) :
       \E c \in Saved : c.file = F_a_jpg /\ c.index = k

\* C6: an enabled crop on an image of current size (W,H) with a margin on
\* both axes yields exactly (floor(W*crop_ratio), floor(H*crop_ratio)), a
\* box inside the image and a crop entry; without a margin the crop is
\* skipped, the size kept, no entry recorded, and the variant still saved
\* when the encoder succeeds.
C6_CropSizeOrSkip ==
  (img.phase = "returned" /\ img.result.crop_seen)
    => LET r == img.result
           W == r.crop_in[1]
           H == r.crop_in[2]
           cw == FloorDiv(W * img.crop_ratio[1], img.crop_ratio[2])
           ch == FloorDiv(H * img.crop_ratio[1], img.crop_ratio[2])
       IN IF W > cw /\ H > ch
          THEN /\ r.crop_out = <<cw, ch>>
               /\ "crop" \in DOMAIN r.modifications
               /\ LET box == r.modifications["crop"]
                  IN /\ 0 <= box[1] /\ box[3] <= W /\ box[3] - box[1] = cw
                     /\ 0 <= box[2] /\ box[4] <= H /\ box[4] - box[2] = ch
          ELSE /\ r.crop_out = r.crop_in
               /\ "crop" \notin DOMAIN r.modifications
               /\ r.saved \/ ~r.encode_ok

C6_Witness ==
  /\ img.phase = "returned"
  /\ img.result.crop_seen
  /\ img.result.saved
  /\ "crop" \in DOMAIN img.result.modifications
  /\ img.result.modifications["crop"][1] > 0
  /\ img.result.modifications["crop"][2] > 0
  /\ img.result.crop_out # img.result.crop_in

\* C7: at the end of a run processed_count is the number of variant files
\* saved during the run, and never exceeds total_images * num_variations.
C7_CountIsFilesWritten ==
  pc = "done"
    => /\ processed_count = Cardinality(Saved)
       /\ processed_count <= Len(image_files) * num_variations

\* C8: each source image is opened once during a run, however many variants
\* are made of it.
C8_DecodedOnce ==
  \A f \in AllFiles : opens[f] <= 1

\* C9: with a non-empty configured set, the subset passed to process_image
\* is non-empty and within the configured set; rotate and scale are active
\* exactly when configured, crop joins them when configured with one of
\* them, and crop alone is the active operation when it alone is configured.
C9_ActiveOperations ==
  \A c \in calls :
    operations # {}
      => /\ c.active # {}
         /\ c.active \subseteq operations
         /\ ("rotate" \in c.active) <=> ("rotate" \in operations)
         /\ ("scale" \in c.active) <=> ("scale" \in operations)
         /\ ("crop" \in operations /\ operations \cap {"rotate", "scale"} # {})
              => "crop" \in c.active
         /\ operations = {"crop"} => c.active = {"crop"}

C9_Witness ==
  /\ operations = {"crop"}
  /\ \E c \in Saved : c.active = {"crop"} /\ c.keys = {"crop"}

\* C10: a saved file is named {basename}_{4-character id}_v{index+1}.jpg;
\* two different (file, index) pairs get the same path only for files with
\* the same base name, the same index and the same id, so two variants of
\* one file never share a path.
C10_OutputNames ==
  /\ \A c \in Saved :
       /\ Len(c.random_id) = 4
       /\ c.output_path.name =
            SplitExt(c.file)[1] \o <<"_">> \o c.random_id \o <<"_", "v">>
              \o Str(c.index + 1) \o <<".", "j", "p", "g">>
  /\ \A c1 \in Saved : \A c2 \in Saved :
       (<<c1.file, c1.index>> # <<c2.file, c2.index>> /\ c1.output_path = c2.output_path)
         => /\ c1.file # c2.file
            /\ SplitExt(c1.file)[1] = SplitExt(c2.file)[1]
            /\ c1.index = c2.index
            /\ c1.random_id = c2.random_id

C10_Witness ==
  \E c1 \in Saved : \E c2 \in Saved :
    /\ c1.file # c2.file
    /\ c1.output_path = c2.output_path
    /\ c1.index = 1

====
